---- MODULE Spec2Model ----
(***************************************************************************)
(* Model of generate_assets.py (InsightWave asset generator): the main     *)
(* pipeline (logo, UI icons, app icons, manifest update), the vector       *)
(* drawings it composes, the monochrome rewrite and the manifest writer.   *)
(***************************************************************************)
EXTENDS Integers, Sequences, FiniteSets, TLC

VARIABLES
    pc,           \* position of main(): see MainPcs
    tempDir,      \* "none" | "exists" | "removed": AssetGenerator.temp_dir on disk
    tempFiles,    \* file name -> content, inside the temporary directory
    files,        \* path under assets/ -> content
    manifestFile, \* content of PROJECT_ROOT/manifest.json
    stagesDone,   \* sequence of the stages of main that ran to completion
    raisedBy,     \* "" or the step of main whose exception reached the handler
    reported,     \* TRUE once the except clause of main printed the error
    ret,          \* value returned by main(): 0 or 1, -1 while it has not returned
    exitStatus,   \* status handed to sys.exit: 0 or 1, -1 while the process runs
    rmtree,       \* "not_called" | "ok" | "failed": shutil.rmtree in __del__
    manifestAtStart, \* manifest.json as it was when the process started
    dpc,          \* drawing walk: [d |-> index in Drawings, i |-> operations applied]
    dwg,          \* the svgwrite.Drawing under construction
    saved,        \* drawing name -> serialized text, as written by dwg.save()
    mpc,          \* monochrome walk: "idle" | "in" | "once" | "twice"
    monoIn,       \* text given to the monochrome rewrite
    monoOut,      \* the rewrite applied to monoIn
    monoOut2,     \* the rewrite applied to monoOut
    cpc,          \* helper walk: "idle" | "loop" | "returned" | "raised"
    call,         \* the helper under way: [fn |-> name, args |-> its arguments]
    ci,           \* the loop variable of the helper (i or x)
    cout          \* the list the helper has built so far

mainVars == <<pc, tempDir, tempFiles, files, manifestFile, stagesDone, raisedBy,
              reported, ret, exitStatus, rmtree, manifestAtStart>>
drawVars == <<dpc, dwg, saved>>
monoVars == <<mpc, monoIn, monoOut, monoOut2>>
calcVars == <<cpc, call, ci, cout>>
vars == <<mainVars, drawVars, monoVars, calcVars>>

-----------------------------------------------------------------------------
(* Brand colours *)

PRIMARY == "#4A6FFF"
SECONDARY == "#6E56CF"
ACCENT == "#00C2FF"
DARK == "#1A1D2B"
SUCCESS == "#2DD4BF"
WARNING == "#F59E0B"
ERROR == "#EF4444"
GRADIENT_START == "#4A6FFF"
GRADIENT_END == "#00C2FF"
BLACK == "#000000"

-----------------------------------------------------------------------------
(* Paint attribute values: a url(#id) reference, a flat value, or absent *)

Url(id) == [ref |-> TRUE, v |-> id]
Flat(c) == [ref |-> FALSE, v |-> c]
NoAttr == [ref |-> FALSE, v |-> ""]

(* Builder operations of a drawing, in program order.                      *)
(*   def : DesignSystem.create_*_filter(dwg, id, ...) registers a defn     *)
(*   new : dwg.<shape>(...) creates an element and binds it to a variable  *)
(*   add : <container>.add(<variable>)                                     *)
(*   save: dwg.save()                                                      *)
Gradient(id, c1, c2) ==
    [op |-> "def", kind |-> "linearGradient", id |-> id, c1 |-> c1, c2 |-> c2]
Glow(id) ==
    [op |-> "def", kind |-> "filter", id |-> id, c1 |-> "", c2 |-> ""]
New(var, tag, fill, stroke, filter) ==
    [op |-> "new", var |-> var, tag |-> tag, fill |-> fill, stroke |-> stroke,
     filter |-> filter]
Add(to, var) == [op |-> "add", to |-> to, var |-> var]
Save == [op |-> "save"]

\* for i in range(n): <new element>; <container>.add(<element>)
Repeat(n, ops) == [k \in 1..(n * Len(ops)) |-> ops[((k - 1) % Len(ops)) + 1]]

RayCount == 8

\* as LogoProgram, with the glow filter registered after the first wave path
LogoProgramGlowLate ==
    << Gradient("logoGradient", GRADIENT_START, GRADIENT_END),
       New("wave1_path", "path", Flat("none"), Url("logoGradient"), Url("logoGlow")),
       Glow("logoGlow"),
       New("wave2_path", "path", Flat("none"), Url("logoGradient"), NoAttr),
       New("bulb_group", "g", NoAttr, NoAttr, NoAttr),
       New("bulb_base", "circle", Url("logoGradient"), NoAttr, NoAttr) >>
    \o Repeat(RayCount,
       << New("ray", "line", NoAttr, Url("logoGradient"), NoAttr),
          Add("bulb_group", "ray") >>)
    \o
    << New("text_group", "g", NoAttr, NoAttr, NoAttr),
       New("insight_text", "text", Flat(PRIMARY), NoAttr, NoAttr),
       New("wave_text", "text", Flat(ACCENT), NoAttr, NoAttr),
       Add("dwg", "wave1_path"),
       Add("dwg", "wave2_path"),
       Add("bulb_group", "bulb_base"),
       Add("dwg", "bulb_group"),
       Add("text_group", "insight_text"),
       Add("text_group", "wave_text"),
       Add("dwg", "text_group"),
       Save >>

LogoProgram ==
    << Gradient("logoGradient", GRADIENT_START, GRADIENT_END),
       Glow("logoGlow"),
       New("wave1_path", "path", Flat("none"), Url("logoGradient"), Url("logoGlow")),
       New("wave2_path", "path", Flat("none"), Url("logoGradient"), NoAttr),
       New("bulb_group", "g", NoAttr, NoAttr, NoAttr),
       New("bulb_base", "circle", Url("logoGradient"), NoAttr, NoAttr) >>
    \o Repeat(RayCount,
       << New("ray", "line", NoAttr, Url("logoGradient"), NoAttr),
          Add("bulb_group", "ray") >>)
    \o
    << New("text_group", "g", NoAttr, NoAttr, NoAttr),
       New("insight_text", "text", Flat(PRIMARY), NoAttr, NoAttr),
       New("wave_text", "text", Flat(ACCENT), NoAttr, NoAttr),
       Add("dwg", "wave1_path"),
       Add("dwg", "wave2_path"),
       Add("bulb_group", "bulb_base"),
       Add("dwg", "bulb_group"),
       Add("text_group", "insight_text"),
       Add("text_group", "wave_text"),
       Add("dwg", "text_group"),
       Save >>

SendProgram ==
    << Gradient("sendGradient", PRIMARY, ACCENT),
       New("plane", "polygon", Url("sendGradient"), NoAttr, NoAttr),
       Add("dwg", "plane"),
       Save >>

SettingsProgram ==
    << Gradient("settingsGradient", PRIMARY, SECONDARY),
       New("center_circle", "circle", Flat("white"), NoAttr, NoAttr),
       New("gear", "polygon", Url("settingsGradient"), NoAttr, NoAttr),
       Add("dwg", "gear"),
       Add("dwg", "center_circle"),
       Save >>

CloseProgram ==
    << Gradient("closeGradient", ERROR, SECONDARY),
       New("line1", "line", NoAttr, Url("closeGradient"), NoAttr),
       New("line2", "line", NoAttr, Url("closeGradient"), NoAttr),
       Add("dwg", "line1"),
       Add("dwg", "line2"),
       Save >>

MenuProgram ==
    << Gradient("menuGradient", PRIMARY, ACCENT),
       New("line1", "line", NoAttr, Url("menuGradient"), NoAttr),
       New("line2", "line", NoAttr, Url("menuGradient"), NoAttr),
       New("line3", "line", NoAttr, Url("menuGradient"), NoAttr),
       Add("dwg", "line1"),
       Add("dwg", "line2"),
       Add("dwg", "line3"),
       Save >>

UserProgram ==
    << Gradient("userGradient", PRIMARY, SECONDARY),
       New("head", "circle", Url("userGradient"), NoAttr, NoAttr),
       New("body", "path", Flat("none"), Url("userGradient"), NoAttr),
       Add("dwg", "head"),
       Add("dwg", "body"),
       Save >>

AssistantProgram ==
    << Gradient("assistantGradient", ACCENT, PRIMARY),
       New("face", "rect", Url("assistantGradient"), NoAttr, NoAttr),
       New("eye1", "circle", Flat("white"), NoAttr, NoAttr),
       New("eye2", "circle", Flat("white"), NoAttr, NoAttr),
       New("mouth", "path", NoAttr, Flat("white"), NoAttr),
       New("antenna", "path", NoAttr, Url("assistantGradient"), NoAttr),
       Add("dwg", "face"),
       Add("dwg", "eye1"),
       Add("dwg", "eye2"),
       Add("dwg", "mouth"),
       Add("dwg", "antenna"),
       Save >>

AttachmentProgram ==
    << Gradient("attachGradient", PRIMARY, SECONDARY),
       New("clip", "path", Flat("none"), Url("attachGradient"), NoAttr),
       Add("dwg", "clip"),
       Save >>

CopyProgram ==
    << Gradient("copyGradient", PRIMARY, ACCENT),
       New("board", "rect", Flat("none"), Url("copyGradient"), NoAttr),
       New("paper", "rect", Flat("white"), Url("copyGradient"), NoAttr),
       New("line1", "line", NoAttr, Url("copyGradient"), NoAttr),
       New("line2", "line", NoAttr, Url("copyGradient"), NoAttr),
       New("line3", "line", NoAttr, Url("copyGradient"), NoAttr),
       Add("dwg", "board"),
       Add("dwg", "paper"),
       Add("dwg", "line1"),
       Add("dwg", "line2"),
       Add("dwg", "line3"),
       Save >>

DownloadProgram ==
    << Gradient("downloadGradient", PRIMARY, SUCCESS),
       New("arrow", "path", Flat("none"), Url("downloadGradient"), NoAttr),
       New("line", "path", NoAttr, Url("downloadGradient"), NoAttr),
       Add("dwg", "arrow"),
       Add("dwg", "line"),
       Save >>

EditProgram ==
    << Gradient("editGradient", PRIMARY, WARNING),
       New("pencil", "path", Flat("none"), Url("editGradient"), NoAttr),
       New("line", "path", NoAttr, Url("editGradient"), NoAttr),
       Add("dwg", "pencil"),
       Add("dwg", "line"),
       Save >>

DeleteProgram ==
    << Gradient("deleteGradient", ERROR, SECONDARY),
       New("can", "path", Flat("none"), Url("deleteGradient"), NoAttr),
       New("lid", "path", NoAttr, Url("deleteGradient"), NoAttr),
       New("line1", "line", NoAttr, Url("deleteGradient"), NoAttr),
       New("line2", "line", NoAttr, Url("deleteGradient"), NoAttr),
       Add("dwg", "can"),
       Add("dwg", "lid"),
       Add("dwg", "line1"),
       Add("dwg", "line2"),
       Save >>

ThemeColors == <<PRIMARY, SECONDARY, ACCENT, SUCCESS>>

ThemeProgram ==
    << Gradient("themeGradient", PRIMARY, SECONDARY),
       New("palette", "path", Flat("none"), Url("themeGradient"), NoAttr) >>
    \o [k \in 1..(2 * Len(ThemeColors)) |->
          IF k % 2 = 1
          THEN New("dot", "circle", Flat(ThemeColors[(k + 1) \div 2]), NoAttr, NoAttr)
          ELSE Add("dwg", "dot")]
    \o
    << Add("dwg", "palette"),
       Save >>

NotificationProgram ==
    << Gradient("notifyGradient", WARNING, ACCENT),
       New("bell", "path", Flat("none"), Url("notifyGradient"), NoAttr),
       New("ringer", "path", NoAttr, Url("notifyGradient"), NoAttr),
       New("dot", "circle", Url("notifyGradient"), NoAttr, NoAttr),
       Add("dwg", "bell"),
       Add("dwg", "ringer"),
       Add("dwg", "dot"),
       Save >>

AppIconProgram ==
    << Gradient("iconGradient", GRADIENT_START, GRADIENT_END),
       Glow("iconGlow"),
       New("background", "rect", Flat(DARK), NoAttr, NoAttr),
       New("wave1_path", "path", Flat("none"), Url("iconGradient"), Url("iconGlow")),
       New("bulb", "circle", Url("iconGradient"), NoAttr, Url("iconGlow")) >>
    \o Repeat(RayCount,
       << New("ray", "line", NoAttr, Url("iconGradient"), NoAttr),
          Add("dwg", "ray") >>)
    \o
    << Add("dwg", "background"),
       Add("dwg", "wave1_path"),
       Add("dwg", "bulb"),
       Save >>

\* icon_specs of generate_ui_icons, in dict order
UiIconNames ==
    << "send", "settings", "close", "menu", "user", "assistant", "attachment",
       "copy", "download", "edit", "delete", "theme", "notification" >>

UiIconProgram(name) ==
    CASE name = "send" -> SendProgram
      [] name = "settings" -> SettingsProgram
      [] name = "close" -> CloseProgram
      [] name = "menu" -> MenuProgram
      [] name = "user" -> UserProgram
      [] name = "assistant" -> AssistantProgram
      [] name = "attachment" -> AttachmentProgram
      [] name = "copy" -> CopyProgram
      [] name = "download" -> DownloadProgram
      [] name = "edit" -> EditProgram
      [] name = "delete" -> DeleteProgram
      [] name = "theme" -> ThemeProgram
      [] name = "notification" -> NotificationProgram

-----------------------------------------------------------------------------
(* Serialized vector text, as a sequence of lexical pieces.                *)
(*   lgOpen id   <linearGradient id="id" ...>     lgClose  </linearGradient> *)
(*   lgSelf id   <linearGradient id="id" ... />   (an element without content) *)
(*   fOpen id    <filter id="id">                 fClose   </filter>         *)
(*   stop c      <stop stop-color="c" .../>       fe n     <n .../>          *)
(*   elem t      <t                               end t    /> or </t>        *)
(*   fill c      fill="c"                         fillUrl id   fill="url(#id)"   *)
(*   stroke c    stroke="c"                       strokeUrl id stroke="url(#id)" *)
(*   filterAttr id  filter="url(#id)"             text c   character data c  *)

Tok(k, v) == [k |-> k, v |-> v]

\* the two halves of the literal DARK, which only adjacent spell "#1A1D2B"
DarkL == "#1A1"
DarkR == "D2B"

RECURSIVE Norm(_)
\* the text is one string: pieces that end up adjacent are read together
Norm(s) ==
    IF Len(s) < 2 THEN s
    ELSE IF s[1] = Tok("text", DarkL) /\ s[2] = Tok("text", DarkR)
         THEN <<Tok("text", DARK)>> \o Norm(SubSeq(s, 3, Len(s)))
         ELSE <<s[1]>> \o Norm(Tail(s))

\* svg_content.replace(BrandColors.DARK, '#000000')
ReplaceDark(s) ==
    [i \in 1..Len(s) |-> IF s[i].v = DARK THEN Tok(s[i].k, BLACK) ELSE s[i]]

\* re.sub(r'fill="url\(#[^"]+\)"', 'fill="#000000"', ...)
SubFill(s) ==
    [i \in 1..Len(s) |-> IF s[i].k = "fillUrl" THEN Tok("fill", BLACK) ELSE s[i]]

\* re.sub(r'stroke="url\(#[^"]+\)"', 'stroke="#000000"', ...)
SubStroke(s) ==
    [i \in 1..Len(s) |-> IF s[i].k = "strokeUrl" THEN Tok("stroke", BLACK) ELSE s[i]]

IsNotFilterAttr(t) == t.k # "filterAttr"

\* re.sub(r'filter="[^"]+"', '', ...)
RemoveFilterAttrs(s) == Norm(SelectSeq(s, IsNotFilterAttr))

\* index of the first piece of kind c after position 1, or 0
FirstClose(s, c) ==
    IF \E j \in 2..Len(s) : s[j].k = c
    THEN CHOOSE j \in 2..Len(s) : s[j].k = c /\ \A h \in 2..(j - 1) : s[h].k # c
    ELSE 0

RECURSIVE CutBlocks(_, _, _)
\* leftmost, non-overlapping, lazy matches of <o[^>]*> .*? </c>, each deleted;
\* o holds the kinds of piece that <o[^>]*> matches
CutBlocks(s, o, c) ==
    IF s = <<>> THEN <<>>
    ELSE IF s[1].k \in o /\ FirstClose(s, c) # 0
         THEN CutBlocks(SubSeq(s, FirstClose(s, c) + 1, Len(s)), o, c)
         ELSE <<s[1]>> \o CutBlocks(Tail(s), o, c)

\* re.sub(r'<linearGradient[^>]*>.*?</linearGradient>', '', ..., flags=re.DOTALL)
RemoveGradientDefs(s) == Norm(CutBlocks(s, {"lgOpen", "lgSelf"}, "lgClose"))

\* re.sub(r'<filter[^>]*>.*?</filter>', '', ..., flags=re.DOTALL)
RemoveFilterDefs(s) == Norm(CutBlocks(s, {"fOpen"}, "fClose"))

\* _create_monochrome_svg_icon: the rewrite between the read and the write
Monochrome(s) ==
    RemoveFilterDefs(RemoveGradientDefs(RemoveFilterAttrs(
        SubStroke(SubFill(ReplaceDark(s))))))

\* url(#id) references used by fill, stroke and filter attributes of a text
UrlRefs(s) ==
    {s[i].v : i \in {j \in 1..Len(s) : s[j].k \in {"fillUrl", "strokeUrl", "filterAttr"}}}

\* identifiers of the gradient and filter definitions present in a text
DefIds(s) == {s[i].v : i \in {j \in 1..Len(s) : s[j].k \in {"lgOpen", "lgSelf", "fOpen"}}}

-----------------------------------------------------------------------------
(* svgwrite.Drawing under construction *)

NewDrawing ==
    [defs |-> <<>>,      \* dwg.defs, in registration order
     created |-> <<>>,   \* every element created so far, in creation order
     env |-> <<>>,       \* local variable -> index in created
     top |-> <<>>,       \* dwg.elements after defs, in add order
     members |-> <<>>]   \* per created element: its children, in add order

ApplyOp(d, o) ==
    CASE o.op = "def" -> [d EXCEPT !.defs = Append(@, o)]
      [] o.op = "new" ->
            [d EXCEPT !.created = Append(@, [tag |-> o.tag, fill |-> o.fill,
                                             stroke |-> o.stroke, filter |-> o.filter]),
                      !.members = Append(@, <<>>),
                      !.env = (o.var :> (Len(d.created) + 1)) @@ @]
      [] o.op = "add" ->
            IF o.to = "dwg"
            THEN [d EXCEPT !.top = Append(@, d.env[o.var])]
            ELSE [d EXCEPT !.members[d.env[o.to]] = Append(@, d.env[o.var])]
      [] o.op = "save" -> d

RECURSIVE RunProgram(_, _)
RunProgram(d, ops) ==
    IF ops = <<>> THEN d ELSE RunProgram(ApplyOp(d, Head(ops)), Tail(ops))

RECURSIVE Concat(_)
Concat(ss) == IF ss = <<>> THEN <<>> ELSE Head(ss) \o Concat(Tail(ss))

\* the references an element carries in its fill, stroke and filter attributes
ElemRefs(e) ==
    {a.v : a \in {b \in {e.fill, e.stroke, e.filter} : b.ref}}

DefTokens(f) ==
    IF f.kind = "linearGradient"
    THEN << Tok("lgOpen", f.id), Tok("stop", f.c1), Tok("stop", f.c2), Tok("lgClose", "") >>
    ELSE << Tok("fOpen", f.id), Tok("fe", "feColorMatrix"), Tok("fe", "feGaussianBlur"),
            Tok("fe", "feComponentTransfer"), Tok("fe", "feBlend"), Tok("fClose", "") >>

\* attributes are written in sorted order: fill, filter, stroke
AttrTokens(e) ==
    (IF e.fill.ref THEN <<Tok("fillUrl", e.fill.v)>>
     ELSE IF e.fill.v # "" THEN <<Tok("fill", e.fill.v)>> ELSE <<>>)
    \o (IF e.filter.ref THEN <<Tok("filterAttr", e.filter.v)>> ELSE <<>>)
    \o (IF e.stroke.ref THEN <<Tok("strokeUrl", e.stroke.v)>>
        ELSE IF e.stroke.v # "" THEN <<Tok("stroke", e.stroke.v)>> ELSE <<>>)

LeafTokens(d, i) ==
    <<Tok("elem", d.created[i].tag)>> \o AttrTokens(d.created[i])
    \o <<Tok("end", d.created[i].tag)>>

ElemTokens(d, i) ==
    IF d.created[i].tag = "g"
    THEN <<Tok("elem", "g")>> \o AttrTokens(d.created[i])
         \o Concat([k \in 1..Len(d.members[i]) |-> LeafTokens(d, d.members[i][k])])
         \o <<Tok("end", "g")>>
    ELSE LeafTokens(d, i)

\* dwg.save(): the defs section, then the elements in the order they were added
Serialize(d) ==
    <<Tok("elem", "svg"), Tok("elem", "defs")>>
    \o Concat([k \in 1..Len(d.defs) |-> DefTokens(d.defs[k])])
    \o <<Tok("end", "defs")>>
    \o Concat([k \in 1..Len(d.top) |-> ElemTokens(d, d.top[k])])
    \o <<Tok("end", "svg")>>

-----------------------------------------------------------------------------
(* Files *)

SvgFile(text) == [type |-> "svg", text |-> text]
PngFile(size) == [type |-> "png", size |-> size]
\* frames: the images embedded in the container; sizes: the sizes= argument
IcoFile(frames, sizes) == [type |-> "ico", frames |-> frames, sizes |-> sizes]

\* Image.open(png_file): the image read from a PNG file
OpenImage(png) == [width |-> png.size, height |-> png.size]

\* order of (width, height) tuples
PairLeq(a, b) == a[1] < b[1] \/ (a[1] = b[1] /\ a[2] <= b[2])

RECURSIVE SortedSizes(_)
\* sorted(set(sizes))
SortedSizes(S) ==
    IF S = {} THEN <<>>
    ELSE LET m == CHOOSE x \in S : \A y \in S : PairLeq(x, y)
         IN <<m>> \o SortedSizes(S \ {m})

(* The frames im.save(format='ICO', sizes=...) embeds when no append_images *)
(* is given: one per requested size in ascending order, a size larger than *)
(* im (or than 256) being ignored; the frame of a size is im itself when it *)
(* has that size, else a copy of im scaled down. from is the position of   *)
(* the source image in the list images.                                    *)
IcoFrames(im, sizes) ==
    LET fit == {z \in {sizes[k] : k \in 1..Len(sizes)} :
                   /\ z[1] <= im.width /\ z[2] <= im.height
                   /\ z[1] <= 256 /\ z[2] <= 256}
        order == SortedSizes(fit)
    IN [k \in 1..Len(order) |->
           [size |-> order[k], from |-> 1,
            scaled |-> order[k] # <<im.width, im.height>>]]

\* images[0].save(output_path, format='ICO', sizes=[(img.width, img.height) ...])
SaveIco(images) ==
    LET sizes == [k \in 1..Len(images) |-> <<images[k].width, images[k].height>>]
    IN IcoFile(IcoFrames(images[1], sizes), sizes)

NoFiles == <<>>

\* open(path, 'w') / save: creates the file or replaces its content
WriteFile(fs, path, content) == (path :> content) @@ fs

\* as IconSizes, the tile image at the 150 px of a medium tile
IconSizesTile150 ==
    << [name |-> "app-icon-16.png", size |-> 16],
       [name |-> "app-icon-32.png", size |-> 32],
       [name |-> "app-icon-48.png", size |-> 48],
       [name |-> "app-icon-72.png", size |-> 72],
       [name |-> "app-icon-96.png", size |-> 96],
       [name |-> "app-icon-144.png", size |-> 144],
       [name |-> "app-icon-192.png", size |-> 192],
       [name |-> "app-icon-256.png", size |-> 256],
       [name |-> "app-icon-384.png", size |-> 384],
       [name |-> "app-icon-512.png", size |-> 512],
       [name |-> "apple-touch-icon.png", size |-> 180],
       [name |-> "apple-touch-icon-precomposed.png", size |-> 180],
       [name |-> "ms-tile-image.png", size |-> 150] >>

\* icon_sizes of generate_app_icons, in dict order
IconSizes ==
    << [name |-> "app-icon-16.png", size |-> 16],
       [name |-> "app-icon-32.png", size |-> 32],
       [name |-> "app-icon-48.png", size |-> 48],
       [name |-> "app-icon-72.png", size |-> 72],
       [name |-> "app-icon-96.png", size |-> 96],
       [name |-> "app-icon-144.png", size |-> 144],
       [name |-> "app-icon-192.png", size |-> 192],
       [name |-> "app-icon-256.png", size |-> 256],
       [name |-> "app-icon-384.png", size |-> 384],
       [name |-> "app-icon-512.png", size |-> 512],
       [name |-> "apple-touch-icon.png", size |-> 180],
       [name |-> "apple-touch-icon-precomposed.png", size |-> 180],
       [name |-> "ms-tile-image.png", size |-> 144] >>

FaviconSizes == <<16, 32, 48>>

BaseSvgName == "app-icon-base.svg"

IconPath(name) ==
    CASE name = "logo" -> "icons/logo.svg"
      [] name = "send" -> "icons/send.svg"
      [] name = "settings" -> "icons/settings.svg"
      [] name = "close" -> "icons/close.svg"
      [] name = "menu" -> "icons/menu.svg"
      [] name = "user" -> "icons/user.svg"
      [] name = "assistant" -> "icons/assistant.svg"
      [] name = "attachment" -> "icons/attachment.svg"
      [] name = "copy" -> "icons/copy.svg"
      [] name = "download" -> "icons/download.svg"
      [] name = "edit" -> "icons/edit.svg"
      [] name = "delete" -> "icons/delete.svg"
      [] name = "theme" -> "icons/theme.svg"
      [] name = "notification" -> "icons/notification.svg"

ImagePath(name) ==
    CASE name = "app-icon-16.png" -> "images/app-icon-16.png"
      [] name = "app-icon-32.png" -> "images/app-icon-32.png"
      [] name = "app-icon-48.png" -> "images/app-icon-48.png"
      [] name = "app-icon-72.png" -> "images/app-icon-72.png"
      [] name = "app-icon-96.png" -> "images/app-icon-96.png"
      [] name = "app-icon-144.png" -> "images/app-icon-144.png"
      [] name = "app-icon-192.png" -> "images/app-icon-192.png"
      [] name = "app-icon-256.png" -> "images/app-icon-256.png"
      [] name = "app-icon-384.png" -> "images/app-icon-384.png"
      [] name = "app-icon-512.png" -> "images/app-icon-512.png"
      [] name = "apple-touch-icon.png" -> "images/apple-touch-icon.png"
      [] name = "apple-touch-icon-precomposed.png" -> "images/apple-touch-icon-precomposed.png"
      [] name = "ms-tile-image.png" -> "images/ms-tile-image.png"
      [] name = "favicon.ico" -> "images/favicon.ico"
      [] name = "safari-pinned-tab.svg" -> "images/safari-pinned-tab.svg"

FaviconTempName(size) ==
    CASE size = 16 -> "favicon-16.png"
      [] size = 32 -> "favicon-32.png"
      [] size = 48 -> "favicon-48.png"

\* a drawing function run to its dwg.save(): the text it writes
DrawingText(prog) == Serialize(RunProgram(NewDrawing, prog))

(* The file-writing steps of generate_app_icons, in execution order:       *)
(*   base   _create_app_icon_svg(base_svg_path)                            *)
(*   png    _convert_svg_to_png(base_svg_path, IMAGES_DIR / name, size)    *)
(*   favpng _convert_svg_to_png(svg_path, temp_png, size) in _create_favicon *)
(*   ico    images[0].save(output_path, format='ICO', sizes=[...])         *)
(*   mono   _create_monochrome_svg_icon(base_svg_path, safari_svg_path)    *)
AppIconSteps ==
    << [k |-> "base", name |-> BaseSvgName, size |-> 0] >>
    \o [i \in 1..Len(IconSizes) |->
          [k |-> "png", name |-> IconSizes[i].name, size |-> IconSizes[i].size]]
    \o [i \in 1..Len(FaviconSizes) |->
          [k |-> "favpng", name |-> FaviconTempName(FaviconSizes[i]),
           size |-> FaviconSizes[i]]]
    \o << [k |-> "ico", name |-> "favicon.ico", size |-> 0],
          [k |-> "mono", name |-> "safari-pinned-tab.svg", size |-> 0] >>

TempInImagesPath(name) ==
    CASE name = "favicon-16.png" -> "images/favicon-16.png"
      [] name = "favicon-32.png" -> "images/favicon-32.png"
      [] name = "favicon-48.png" -> "images/favicon-48.png"

\* as AppIconStep, with the favicon intermediates placed in IMAGES_DIR
AppIconStepTempInImages(st, step) ==
    CASE step.k = "base" ->
            [st EXCEPT !.tf = WriteFile(@, step.name, SvgFile(DrawingText(AppIconProgram)))]
      [] step.k = "png" ->
            [st EXCEPT !.fs = WriteFile(@, ImagePath(step.name), PngFile(step.size))]
      [] step.k = "favpng" ->
            [st EXCEPT !.tf = WriteFile(@, step.name, PngFile(step.size)),
                       !.fs = WriteFile(@, TempInImagesPath(step.name), PngFile(step.size))]
      [] step.k = "ico" ->
            [st EXCEPT !.fs = WriteFile(@, ImagePath(step.name),
                SaveIco([i \in 1..Len(FaviconSizes) |->
                            OpenImage(st.tf[FaviconTempName(FaviconSizes[i])])]))]
      [] step.k = "mono" ->
            [st EXCEPT !.fs = WriteFile(@, ImagePath(step.name),
                SvgFile(Monochrome(st.tf[BaseSvgName].text)))]

\* one step applied to st = [tf |-> temporary files, fs |-> files under assets]
AppIconStep(st, step) ==
    CASE step.k = "base" ->
            [st EXCEPT !.tf = WriteFile(@, step.name, SvgFile(DrawingText(AppIconProgram)))]
      [] step.k = "png" ->
            [st EXCEPT !.fs = WriteFile(@, ImagePath(step.name), PngFile(step.size))]
      [] step.k = "favpng" ->
            [st EXCEPT !.tf = WriteFile(@, step.name, PngFile(step.size))]
      [] step.k = "ico" ->
            [st EXCEPT !.fs = WriteFile(@, ImagePath(step.name),
                SaveIco([i \in 1..Len(FaviconSizes) |->
                            OpenImage(st.tf[FaviconTempName(FaviconSizes[i])])]))]
      [] step.k = "mono" ->
            [st EXCEPT !.fs = WriteFile(@, ImagePath(step.name),
                SvgFile(Monochrome(st.tf[BaseSvgName].text)))]

RECURSIVE AppIconRun(_, _)
\* the first n steps of generate_app_icons
AppIconRun(st, n) ==
    IF n = 0 THEN st ELSE AppIconStep(AppIconRun(st, n - 1), AppIconSteps[n])

RECURSIVE UiIconRun(_, _)
\* the first n iterations of the loop of generate_ui_icons
UiIconRun(fs, n) ==
    IF n = 0 THEN fs
    ELSE WriteFile(UiIconRun(fs, n - 1), IconPath(UiIconNames[n]),
                   SvgFile(DrawingText(UiIconProgram(UiIconNames[n]))))

-----------------------------------------------------------------------------
(* Manifest document *)

\* JSON values held by the keys of a manifest object
JStr(x) == [t |-> "string", s |-> x, items |-> <<>>]
JArr(xs) == [t |-> "array", s |-> "", items |-> xs]

\* sizes <<w, h>> stands for the label "WxH"
IconEntry(src, w) == [src |-> src, sizes |-> <<w, w>>, type |-> "image/png"]

\* as FixedIcons, with an entry for a 128 px file in place of the 144 px one
FixedIconsWith128 ==
    JArr(<< IconEntry("assets/images/app-icon-48.png", 48),
            IconEntry("assets/images/app-icon-72.png", 72),
            IconEntry("assets/images/app-icon-96.png", 96),
            IconEntry("assets/images/app-icon-128.png", 128),
            IconEntry("assets/images/app-icon-192.png", 192),
            IconEntry("assets/images/app-icon-256.png", 256),
            IconEntry("assets/images/app-icon-384.png", 384),
            IconEntry("assets/images/app-icon-512.png", 512) >>)

\* icons of update_manifest_json
FixedIcons ==
    JArr(<< IconEntry("assets/images/app-icon-48.png", 48),
            IconEntry("assets/images/app-icon-72.png", 72),
            IconEntry("assets/images/app-icon-96.png", 96),
            IconEntry("assets/images/app-icon-144.png", 144),
            IconEntry("assets/images/app-icon-192.png", 192),
            IconEntry("assets/images/app-icon-256.png", 256),
            IconEntry("assets/images/app-icon-384.png", 384),
            IconEntry("assets/images/app-icon-512.png", 512) >>)

MetaKeys ==
    {"name", "short_name", "description", "theme_color", "background_color",
     "display", "start_url"}

\* a parsed JSON document: an object with members m, or some other JSON value
JObject(m) == [t |-> "object", m |-> m]
NonObject(t) == [t |-> t, m |-> <<>>]
EmptyObject == JObject(<<>>)

\* manifest.json on disk
Missing == [state |-> "missing", json |-> EmptyObject]
Garbage == [state |-> "garbage", json |-> EmptyObject]
JsonText(v) == [state |-> "json", json |-> v]

\* lines 875-882: json.load of an existing file, {} when absent or on any error
LoadManifest(f) == IF f.state = "json" THEN f.json ELSE EmptyObject

\* `key not in manifest` is defined for mappings, sequences and strings only
InRaises(doc) == doc.t \notin {"object", "array", "string"}

\* manifest[key] = value with a string key is defined for mappings only
SetItemRaises(doc) == doc.t # "object"

\* lines 885-907 raise TypeError: the membership tests or, at the latest, the
\* unconditional manifest["icons"] = icons
UpdateRaises(doc) == InRaises(doc) \/ SetItemRaises(doc)

SetItem(m, k, v) == [x \in DOMAIN m \cup {k} |-> IF x = k THEN v ELSE m[x]]

\* as SetDefault, without the membership test
SetDefaultAlways(m, k, v) == SetItem(m, k, v)

\* as SetDefault, with the assignment lost
SetDefaultNever(m, k, v) == m

\* if key not in manifest: manifest[key] = value
SetDefault(m, k, v) == IF k \in DOMAIN m THEN m ELSE SetItem(m, k, v)

\* as SetIcons, guarded like the metadata fields
SetIconsIfAbsent(m) == SetDefault(m, "icons", FixedIcons)

\* manifest["icons"] = icons
SetIcons(m) == SetItem(m, "icons", FixedIcons)

\* lines 885-907 on a mapping
UpdatedMembers(m) ==
    SetIcons(
      SetDefault(
        SetDefault(
          SetDefault(
            SetDefault(
              SetDefault(
                SetDefault(
                  SetDefault(m, "name", JStr("InsightWave")),
                  "short_name", JStr("InsightWave")),
                "description", JStr("Conversations that elevate your thinking")),
              "theme_color", JStr(PRIMARY)),
            "background_color", JStr(DARK)),
          "display", JStr("standalone")),
        "start_url", JStr("/")))

-----------------------------------------------------------------------------
(* Manifests the process may find *)

\* keys an operator may have added besides the reserved ones
CustomKeys == {"lang"}

\* values an existing "icons" key may hold
OldIcons ==
    { JArr(<<>>),
      JArr(<<IconEntry("old/icon.png", 64)>>),
      JStr("not-a-list"),
      FixedIcons }

ObjectsWith(keys) ==
    { JObject([k \in keys |-> JStr("operator value")]) } \cup
    { JObject([k \in keys \cup {"icons"} |->
                  IF k = "icons" THEN old ELSE JStr("operator value")]) : old \in OldIcons }

InitialObjects ==
    UNION { ObjectsWith(ks) : ks \in SUBSET (MetaKeys \cup CustomKeys) }

NonObjects == { NonObject(t) : t \in {"array", "string", "number", "null", "bool"} }

InitialManifests ==
    {Missing, Garbage} \cup { JsonText(v) : v \in InitialObjects \cup NonObjects }

-----------------------------------------------------------------------------
(* main() *)

StageNames == <<"logo", "ui", "app", "manifest">>

DrawIdle == dpc = [d |-> 0, i |-> 0] /\ dwg = NewDrawing /\ saved = NoFiles
MonoIdle == mpc = "idle" /\ monoIn = <<>> /\ monoOut = <<>> /\ monoOut2 = <<>>
NoCall == [fn |-> "", args |-> <<>>]
CalcIdle == cpc = "idle" /\ call = NoCall /\ ci = 0 /\ cout = <<>>

MainInit ==
    /\ pc = "start"
    /\ tempDir = "none"
    /\ tempFiles = NoFiles
    /\ files = NoFiles
    /\ manifestFile \in InitialManifests
    /\ manifestAtStart = manifestFile
    /\ stagesDone = <<>>
    /\ raisedBy = ""
    /\ reported = FALSE
    /\ ret = -1
    /\ exitStatus = -1
    /\ rmtree = "not_called"

Init == MainInit /\ DrawIdle /\ MonoIdle /\ CalcIdle

\* as Raise, with the failure of a step recorded and main going on to the
\* following step
RaiseAndGoOn(step) ==
    /\ raisedBy' = step
    /\ pc' = CASE step = "construct" -> "logo"
              [] step = "logo" -> "ui"
              [] step = "ui" -> "app"
              [] step = "app" -> "manifest"
              [] OTHER -> "complete"

\* an exception leaves the try block of main for its except clause
Raise(step) == pc' = "handler" /\ raisedBy' = step

\* generator = AssetGenerator(): tempfile.mkdtemp() creates the directory or raises
Construct ==
    /\ pc = "start"
    /\ \E ok \in BOOLEAN :
          IF ok
          THEN tempDir' = "exists" /\ pc' = "logo" /\ UNCHANGED raisedBy
          ELSE Raise("construct") /\ UNCHANGED tempDir
    /\ UNCHANGED <<tempFiles, files, manifestFile, stagesDone, reported, ret,
                   exitStatus, rmtree, manifestAtStart, drawVars, monoVars, calcVars>>

\* generator.generate_logo_svg(ICONS_DIR / "logo.svg")
GenerateLogo ==
    /\ pc = "logo"
    /\ \E ok \in BOOLEAN :
          IF ok
          THEN /\ files' = WriteFile(files, IconPath("logo"), SvgFile(DrawingText(LogoProgram)))
               /\ stagesDone' = Append(stagesDone, "logo")
               /\ pc' = "ui"
               /\ UNCHANGED raisedBy
          ELSE Raise("logo") /\ UNCHANGED <<files, stagesDone>>
    /\ UNCHANGED <<tempDir, tempFiles, manifestFile, reported, ret, exitStatus,
                   rmtree, manifestAtStart, drawVars, monoVars, calcVars>>

\* generator.generate_ui_icons(): n icons are written before one raises, or all
GenerateUiIcons ==
    /\ pc = "ui"
    /\ \E n \in 0..Len(UiIconNames) :
          /\ files' = UiIconRun(files, n)
          /\ IF n = Len(UiIconNames)
             THEN stagesDone' = Append(stagesDone, "ui") /\ pc' = "app"
                  /\ UNCHANGED raisedBy
             ELSE Raise("ui") /\ UNCHANGED stagesDone
    /\ UNCHANGED <<tempDir, tempFiles, manifestFile, reported, ret, exitStatus,
                   rmtree, manifestAtStart, drawVars, monoVars, calcVars>>

\* generator.generate_app_icons(): n steps are done before one raises, or all
GenerateAppIcons ==
    /\ pc = "app"
    /\ \E n \in 0..Len(AppIconSteps) :
          LET st == AppIconRun([tf |-> tempFiles, fs |-> files], n) IN
          /\ tempFiles' = st.tf
          /\ files' = st.fs
          /\ IF n = Len(AppIconSteps)
             THEN stagesDone' = Append(stagesDone, "app") /\ pc' = "manifest"
                  /\ UNCHANGED raisedBy
             ELSE Raise("app") /\ UNCHANGED stagesDone
    /\ UNCHANGED <<tempDir, manifestFile, reported, ret, exitStatus, rmtree,
                   manifestAtStart, drawVars, monoVars, calcVars>>

\* generator.update_manifest_json()
UpdateManifest ==
    /\ pc = "manifest"
    /\ LET doc == LoadManifest(manifestFile) IN
       IF UpdateRaises(doc)
       THEN Raise("manifest_content") /\ UNCHANGED <<manifestFile, stagesDone>>
       ELSE \E written \in BOOLEAN :
               IF written
               THEN /\ manifestFile' = JsonText(JObject(UpdatedMembers(doc.m)))
                    /\ stagesDone' = Append(stagesDone, "manifest")
                    /\ pc' = "complete"
                    /\ UNCHANGED raisedBy
               ELSE \* open(manifest_path, 'w') or json.dump raises
                    /\ Raise("manifest_write")
                    /\ manifestFile' \in {manifestFile, Garbage}
                    /\ UNCHANGED stagesDone
    /\ UNCHANGED <<tempDir, tempFiles, files, reported, ret, exitStatus, rmtree,
                   manifestAtStart, drawVars, monoVars, calcVars>>

\* lines 935-938 and 946: the closing messages, return 0
ReturnSuccess ==
    /\ pc = "complete"
    /\ ret' = 0
    /\ pc' = "returned"
    /\ UNCHANGED <<tempDir, tempFiles, files, manifestFile, stagesDone, raisedBy,
                   reported, exitStatus, rmtree, manifestAtStart, drawVars, monoVars, calcVars>>

\* as HandleException, with the return 1 of the except clause left out
HandleExceptionFallsThrough ==
    /\ pc = "handler"
    /\ reported' = TRUE
    /\ ret' = 0
    /\ pc' = "returned"
    /\ UNCHANGED <<tempDir, tempFiles, files, manifestFile, stagesDone, raisedBy,
                   exitStatus, rmtree, manifestAtStart, drawVars, monoVars, calcVars>>

\* lines 940-944: except Exception: print the message and the traceback, return 1
HandleException ==
    /\ pc = "handler"
    /\ reported' = TRUE
    /\ ret' = 1
    /\ pc' = "returned"
    /\ UNCHANGED <<tempDir, tempFiles, files, manifestFile, stagesDone, raisedBy,
                   exitStatus, rmtree, manifestAtStart, drawVars, monoVars, calcVars>>

\* as Teardown, with the cleanup reached on the success path only
TeardownOnSuccessOnly ==
    /\ pc = "returned"
    /\ pc' = "torn_down"
    /\ IF tempDir = "exists" /\ ret = 0
       THEN \E ok \in BOOLEAN :
               /\ rmtree' = (IF ok THEN "ok" ELSE "failed")
               /\ tempDir' = (IF ok THEN "removed" ELSE tempDir)
               /\ tempFiles' = (IF ok THEN NoFiles ELSE tempFiles)
       ELSE UNCHANGED <<rmtree, tempDir, tempFiles>>
    /\ UNCHANGED <<files, manifestFile, stagesDone, raisedBy, reported, ret,
                   exitStatus, manifestAtStart, drawVars, monoVars, calcVars>>

\* AssetGenerator.__del__, run when main's frame releases the generator:
\* shutil.rmtree(self.temp_dir) inside try/except-pass. When __init__ raised,
\* self.temp_dir was never set and the AttributeError is swallowed.
Teardown ==
    /\ pc = "returned"
    /\ pc' = "torn_down"
    /\ IF tempDir = "exists"
       THEN \E ok \in BOOLEAN :
               /\ rmtree' = (IF ok THEN "ok" ELSE "failed")
               /\ tempDir' = (IF ok THEN "removed" ELSE tempDir)
               /\ tempFiles' = (IF ok THEN NoFiles ELSE tempFiles)
       ELSE UNCHANGED <<rmtree, tempDir, tempFiles>>
    /\ UNCHANGED <<files, manifestFile, stagesDone, raisedBy, reported, ret,
                   exitStatus, manifestAtStart, drawVars, monoVars, calcVars>>

\* sys.exit(main())
SysExit ==
    /\ pc = "torn_down"
    /\ exitStatus' = ret
    /\ pc' = "exit"
    /\ UNCHANGED <<tempDir, tempFiles, files, manifestFile, stagesDone, raisedBy,
                   reported, ret, rmtree, manifestAtStart, drawVars, monoVars, calcVars>>

Next ==
    \/ Construct
    \/ GenerateLogo
    \/ GenerateUiIcons
    \/ GenerateAppIcons
    \/ UpdateManifest
    \/ ReturnSuccess
    \/ HandleException
    \/ Teardown
    \/ SysExit

Spec == Init /\ [][Next]_vars

-----------------------------------------------------------------------------
(* The drawings, built one builder call at a time *)

MainIdle ==
    /\ pc = "idle"
    /\ tempDir = "none"
    /\ tempFiles = NoFiles
    /\ files = NoFiles
    /\ manifestFile = Missing
    /\ manifestAtStart = Missing
    /\ stagesDone = <<>>
    /\ raisedBy = ""
    /\ reported = FALSE
    /\ ret = -1
    /\ exitStatus = -1
    /\ rmtree = "not_called"

\* every drawing function of the generator, in the order main reaches them
Drawings ==
    << [name |-> "logo", prog |-> LogoProgram] >>
    \o [i \in 1..Len(UiIconNames) |->
          [name |-> UiIconNames[i], prog |-> UiIconProgram(UiIconNames[i])]]
    \o << [name |-> BaseSvgName, prog |-> AppIconProgram] >>

SafariName == "safari-pinned-tab.svg"

Drawing == dpc.d \in 1..Len(Drawings)
CurOp == Drawings[dpc.d].prog[dpc.i + 1]

DrawInit ==
    /\ dpc = [d |-> 1, i |-> 0]
    /\ dwg = NewDrawing
    /\ saved = NoFiles

StepBuilder ==
    /\ dwg' = ApplyOp(dwg, CurOp)
    /\ dpc' = [dpc EXCEPT !.i = @ + 1]
    /\ UNCHANGED <<saved, mainVars, monoVars, calcVars>>

\* self.design.create_gradient_filter / create_glow_filter
DrawDef == Drawing /\ CurOp.op = "def" /\ StepBuilder

\* dwg.path / circle / line / rect / polygon / text / g
DrawNew == Drawing /\ CurOp.op = "new" /\ StepBuilder

\* dwg.add / group.add
DrawAdd == Drawing /\ CurOp.op = "add" /\ StepBuilder

\* dwg.save(); the next drawing function starts from a fresh Drawing
DrawSave ==
    /\ Drawing
    /\ CurOp.op = "save"
    /\ saved' = WriteFile(saved, Drawings[dpc.d].name, Serialize(dwg))
    /\ dwg' = NewDrawing
    /\ dpc' = [d |-> dpc.d + 1, i |-> 0]
    /\ UNCHANGED <<mainVars, monoVars, calcVars>>

\* _create_monochrome_svg_icon(base_svg_path, safari_svg_path)
DrawMonochrome ==
    /\ dpc.d = Len(Drawings) + 1
    /\ SafariName \notin DOMAIN saved
    /\ saved' = WriteFile(saved, SafariName, Monochrome(saved[BaseSvgName]))
    /\ UNCHANGED <<dpc, dwg, mainVars, monoVars, calcVars>>

NextDraw == DrawDef \/ DrawNew \/ DrawAdd \/ DrawSave \/ DrawMonochrome

InitDraw == MainIdle /\ DrawInit /\ MonoIdle /\ CalcIdle

SpecDraw == InitDraw /\ [][NextDraw]_vars

-----------------------------------------------------------------------------
(* The monochrome rewrite on arbitrary vector text *)

MonoMaxLen == 3

MonoAlphabet ==
    { Tok("elem", "rect"), Tok("fill", DARK), Tok("fillUrl", "g"),
      Tok("strokeUrl", "g"), Tok("filterAttr", "f"),
      Tok("lgOpen", "g"), Tok("lgSelf", "h"), Tok("lgClose", ""),
      Tok("fOpen", "f"), Tok("fClose", ""),
      Tok("text", DarkL), Tok("text", DarkR) }

MonoInputs ==
    { Norm(s) : s \in UNION { [1..n -> MonoAlphabet] : n \in 0..MonoMaxLen } }

MonoInit ==
    /\ mpc = "in"
    /\ monoIn \in MonoInputs
    /\ monoOut = <<>>
    /\ monoOut2 = <<>>

\* the rewrite applied to the input text
MonoFirst ==
    /\ mpc = "in"
    /\ monoOut' = Monochrome(monoIn)
    /\ mpc' = "once"
    /\ UNCHANGED <<monoIn, monoOut2, mainVars, drawVars, calcVars>>

\* the rewrite applied to its own output
MonoSecond ==
    /\ mpc = "once"
    /\ monoOut2' = Monochrome(monoOut)
    /\ mpc' = "twice"
    /\ UNCHANGED <<monoIn, monoOut, mainVars, drawVars, calcVars>>

NextMono == MonoFirst \/ MonoSecond

InitMono == MainIdle /\ DrawIdle /\ MonoInit /\ CalcIdle

SpecMono == InitMono /\ [][NextMono]_vars

-----------------------------------------------------------------------------
(* The colour and geometry helpers, one loop iteration at a time *)

(* Python floats are modelled as exact fractions num/den in lowest terms.   *)
(* For the arguments drawn below the binary result of every expression     *)
(* lies on the same side of each integer as the exact one, so int() gives  *)
(* the same digit pair.                                                    *)
RECURSIVE Gcd(_, _)
Gcd(a, b) == IF b = 0 THEN a ELSE Gcd(b, a % b)

Abs(n) == IF n < 0 THEN -n ELSE n

Rat(n, d) ==
    LET g == Gcd(Abs(n), Abs(d))
        s == IF d < 0 THEN -1 ELSE 1
    IN [num |-> (s * n) \div g, den |-> (s * d) \div g]

\* the outcome of a / b when b = 0: ZeroDivisionError
ZeroDivision == [num |-> 0, den |-> 0]

\* a / b
Quot(a, b) == IF b = 0 THEN ZeroDivision ELSE Rat(a, b)

RAdd(p, q) == Rat(p.num * q.den + q.num * p.den, p.den * q.den)
RSub(p, q) == Rat(p.num * q.den - q.num * p.den, p.den * q.den)
RMul(p, q) == Rat(p.num * q.num, p.den * q.den)

\* int(x): the fraction dropped, towards zero
Trunc(p) ==
    IF p.num >= 0 THEN p.num \div p.den ELSE -((-p.num) \div p.den)

\* the characters of the two gradient endpoints
Chars(colour) ==
    CASE colour = "#4A6FFF" -> <<"#", "4", "A", "6", "F", "F", "F">>
      [] colour = "#00C2FF" -> <<"#", "0", "0", "C", "2", "F", "F">>

LowerDigits ==
    <<"0", "1", "2", "3", "4", "5", "6", "7", "8", "9", "a", "b", "c", "d", "e", "f">>
UpperDigits ==
    <<"0", "1", "2", "3", "4", "5", "6", "7", "8", "9", "A", "B", "C", "D", "E", "F">>

\* int(s, 16) of one digit: either case is accepted
HexVal(ch) ==
    CHOOSE v \in 0..15 : ch = LowerDigits[v + 1] \/ ch = UpperDigits[v + 1]

\* hex_color.lstrip('#')
LStripHash(cs) == IF Len(cs) > 0 /\ cs[1] = "#" THEN Tail(cs) ELSE cs

\* hex_to_rgb: int(hex_color[i:i+2], 16) / 255 for i in (0, 2, 4)
hex_to_rgb(cs) ==
    LET h == LStripHash(cs)
    IN [k \in 1..3 |->
           Quot(16 * HexVal(h[2 * k - 1]) + HexVal(h[2 * k]), 255)]

\* '{:02x}' of a value in 0..255: two lower-case digits
TwoHex(v) == <<LowerDigits[(v \div 16) + 1], LowerDigits[(v % 16) + 1]>>

\* rgb_to_hex: '#{:02x}{:02x}{:02x}' of int(rgb[k] * 255)
rgb_to_hex(rgb) ==
    <<"#">> \o TwoHex(Trunc(RMul(rgb[1], Rat(255, 1))))
            \o TwoHex(Trunc(RMul(rgb[2], Rat(255, 1))))
            \o TwoHex(Trunc(RMul(rgb[3], Rat(255, 1))))

\* as GradientT, dividing by count - 1 whatever count is
GradientTUnguarded(i, count) == Quot(i, count - 1)

\* as GradientT, dividing by count
GradientTByCount(i, count) == IF count > 1 THEN Quot(i, count) ELSE Rat(0, 1)

\* t = i / (count - 1) if count > 1 else 0
GradientT(i, count) == IF count > 1 THEN Quot(i, count - 1) ELSE Rat(0, 1)

\* one stop: rgb_to_hex(start + (end - start) * t) on each channel
GradientStop(t) ==
    LET start_rgb == hex_to_rgb(Chars(GRADIENT_START))
        end_rgb == hex_to_rgb(Chars(GRADIENT_END))
    IN rgb_to_hex([k \in 1..3 |->
           RAdd(start_rgb[k], RMul(RSub(end_rgb[k], start_rgb[k]), t))])

\* one point of create_wave_path: x and the terms of y; turn is x / width
WavePoint(x, turn, height, amplitude, frequency, phase) ==
    [x |-> x, half |-> Quot(height, 2), swing |-> height * amplitude,
     turn |-> turn, frequency |-> frequency, phase |-> phase]

\* locals of _create_settings_icon; lengths in twentieths of a pixel
GearSize == 24
Teeth == 8
GearCenter == GearSize * 10
OuterRadius == GearSize * 8
InnerRadius == GearSize * 5

\* as GearRadius, the two radii exchanged
GearRadiusSwapped(i) == IF i % 2 = 0 THEN InnerRadius ELSE OuterRadius

\* radius = outer_radius if i % 2 == 0 else inner_radius
GearRadius(i) == IF i % 2 = 0 THEN OuterRadius ELSE InnerRadius

\* one vertex, in polar form about the center: angle = i * pi / teeth
GearVertex(i) ==
    [center |-> GearCenter, radius |-> GearRadius(i), angle |-> Quot(i, Teeth)]

MaxCount == 5
MaxWidth == 4

\* amplitude in hundredths, frequency in tenths, phase in quarter turns
WaveHeights == {40, 256}
WaveAmplitudes == {10, 35}
WaveFrequencies == {10, 15}
WavePhases == {0, 1}

GradientCalls ==
    {[fn |-> "get_gradient_stops", args |-> <<n>>] : n \in 1..MaxCount}

WaveCalls ==
    {[fn |-> "create_wave_path", args |-> <<w, h, a, f, p>>] :
        w \in 0..MaxWidth, h \in WaveHeights, a \in WaveAmplitudes,
        f \in WaveFrequencies, p \in WavePhases}

GearCalls == {[fn |-> "gear_path", args |-> <<>>]}

CalcInit ==
    /\ cpc = "loop"
    /\ call \in GradientCalls \cup WaveCalls \cup GearCalls
    /\ ci = 0
    /\ cout = <<>>

\* for i in range(count): ... gradient.append(rgb_to_hex(rgb))
GradientStep ==
    /\ cpc = "loop"
    /\ call.fn = "get_gradient_stops"
    /\ ci < call.args[1]
    /\ LET t == GradientT(ci, call.args[1])
       IN IF t = ZeroDivision
          THEN cpc' = "raised" /\ UNCHANGED <<ci, cout>>
          ELSE /\ cout' = Append(cout, GradientStop(t))
               /\ ci' = ci + 1
               /\ UNCHANGED cpc
    /\ UNCHANGED <<call, mainVars, drawVars, monoVars>>

\* return gradient
GradientReturn ==
    /\ cpc = "loop"
    /\ call.fn = "get_gradient_stops"
    /\ ci >= call.args[1]
    /\ cpc' = "returned"
    /\ UNCHANGED <<call, ci, cout, mainVars, drawVars, monoVars>>

\* for x in range(width + 1): y = ...; points.append((x, y))
WaveStep ==
    /\ cpc = "loop"
    /\ call.fn = "create_wave_path"
    /\ ci < call.args[1] + 1
    /\ LET turn == Quot(ci, call.args[1])
       IN IF turn = ZeroDivision
          THEN cpc' = "raised" /\ UNCHANGED <<ci, cout>>
          ELSE /\ cout' = Append(cout, WavePoint(ci, turn, call.args[2],
                                call.args[3], call.args[4], call.args[5]))
               /\ ci' = ci + 1
               /\ UNCHANGED cpc
    /\ UNCHANGED <<call, mainVars, drawVars, monoVars>>

\* return points
WaveReturn ==
    /\ cpc = "loop"
    /\ call.fn = "create_wave_path"
    /\ ci >= call.args[1] + 1
    /\ cpc' = "returned"
    /\ UNCHANGED <<call, ci, cout, mainVars, drawVars, monoVars>>

\* for i in range(teeth * 2): ... gear_path.append((x, y))
GearStep ==
    /\ cpc = "loop"
    /\ call.fn = "gear_path"
    /\ ci < Teeth * 2
    /\ cout' = Append(cout, GearVertex(ci))
    /\ ci' = ci + 1
    /\ UNCHANGED <<cpc, call, mainVars, drawVars, monoVars>>

\* gear = dwg.polygon(points=gear_path, ...)
GearPolygon ==
    /\ cpc = "loop"
    /\ call.fn = "gear_path"
    /\ ci >= Teeth * 2
    /\ cpc' = "returned"
    /\ UNCHANGED <<call, ci, cout, mainVars, drawVars, monoVars>>

NextCalc ==
    \/ GradientStep \/ GradientReturn
    \/ WaveStep \/ WaveReturn
    \/ GearStep \/ GearPolygon

InitCalc == MainIdle /\ DrawIdle /\ MonoIdle /\ CalcInit

SpecCalc == InitCalc /\ [][NextCalc]_vars

-----------------------------------------------------------------------------
(* Properties of the manifest writer *)

\* update_manifest_json ran to completion
ManifestUpdated == Len(stagesDone) = Len(StageNames)

OldDoc == manifestAtStart.json
NewDoc == manifestFile.json

ExpectedIconSrc ==
    << "assets/images/app-icon-48.png", "assets/images/app-icon-72.png",
       "assets/images/app-icon-96.png", "assets/images/app-icon-144.png",
       "assets/images/app-icon-192.png", "assets/images/app-icon-256.png",
       "assets/images/app-icon-384.png", "assets/images/app-icon-512.png" >>

ExpectedIconSide == <<48, 72, 96, 144, 192, 256, 384, 512>>

\* C1: once update_manifest_json has completed, the manifest's "icons" value is
\* exactly the fixed eight-entry list (48, 72, 96, 144, 192, 256, 384, 512, in
\* that order, each labelled WxH and typed image/png), whatever "icons" value
\* the manifest held before.
C1_IconsReplaced ==
    ManifestUpdated =>
        /\ manifestFile.state = "json"
        /\ NewDoc.t = "object"
        /\ "icons" \in DOMAIN NewDoc.m
        /\ NewDoc.m["icons"].t = "array"
        /\ Len(NewDoc.m["icons"].items) = Len(ExpectedIconSrc)
        /\ \A i \in 1..Len(ExpectedIconSrc) :
              NewDoc.m["icons"].items[i] =
                  [src |-> ExpectedIconSrc[i],
                   sizes |-> <<ExpectedIconSide[i], ExpectedIconSide[i]>>,
                   type |-> "image/png"]

\* a manifest that already listed one other icon has been rewritten
C1_Witness ==
    /\ ManifestUpdated
    /\ manifestAtStart.state = "json"
    /\ "icons" \in DOMAIN OldDoc.m
    /\ OldDoc.m["icons"] = JArr(<<IconEntry("old/icon.png", 64)>>)

\* the seven defaults and the icons list: what an empty document becomes
DefaultMembers ==
    [k \in MetaKeys \cup {"icons"} |->
        CASE k = "name" -> JStr("InsightWave")
          [] k = "short_name" -> JStr("InsightWave")
          [] k = "description" -> JStr("Conversations that elevate your thinking")
          [] k = "theme_color" -> JStr("#4A6FFF")
          [] k = "background_color" -> JStr("#1A1D2B")
          [] k = "display" -> JStr("standalone")
          [] k = "start_url" -> JStr("/")
          [] k = "icons" -> FixedIcons]


\* C2: update_manifest_json leaves every key other than "icons" of an existing
\* manifest object unchanged; a metadata key gets its default only when it was
\* absent, and a custom key keeps its value and is not removed.
C2_OtherKeysKept ==
    (ManifestUpdated /\ manifestAtStart.state = "json") =>
        /\ \A k \in DOMAIN OldDoc.m \ {"icons"} :
              k \in DOMAIN NewDoc.m /\ NewDoc.m[k] = OldDoc.m[k]
        /\ \A k \in MetaKeys \ DOMAIN OldDoc.m :
              k \in DOMAIN NewDoc.m /\ NewDoc.m[k] = DefaultMembers[k]
        /\ DOMAIN NewDoc.m = DOMAIN OldDoc.m \cup MetaKeys \cup {"icons"}

\* a manifest with a custom key, its own name and no display has been rewritten
C2_Witness ==
    /\ ManifestUpdated
    /\ manifestAtStart.state = "json"
    /\ {"lang", "name"} \subseteq DOMAIN OldDoc.m
    /\ "display" \notin DOMAIN OldDoc.m
    /\ "icons" \notin DOMAIN OldDoc.m

\* C3: from a missing manifest file, or one that cannot be parsed, the writer
\* produces a document holding the seven default metadata fields and the fixed
\* icons list, and nothing else.
C3_DefaultsFromNothing ==
    (ManifestUpdated /\ manifestAtStart.state \in {"missing", "garbage"}) =>
        manifestFile = JsonText(JObject(DefaultMembers))

\* an unparsable manifest has been replaced
C3_Witness == ManifestUpdated /\ manifestAtStart = Garbage /\ manifestFile # Garbage

\* C4 (as claimed): whatever the existing manifest file holds, unparsable text
\* or JSON that is not an object, no failure caused by its content reaches main.
C4_ContentNeverRaises == raisedBy # "manifest_content"

-----------------------------------------------------------------------------
(* Properties of main *)

ExpectedIconsDir ==
    { "icons/logo.svg", "icons/send.svg", "icons/settings.svg", "icons/close.svg",
      "icons/menu.svg", "icons/user.svg", "icons/assistant.svg",
      "icons/attachment.svg", "icons/copy.svg", "icons/download.svg",
      "icons/edit.svg", "icons/delete.svg", "icons/theme.svg",
      "icons/notification.svg" }

ExpectedPngs ==
    { "images/app-icon-16.png", "images/app-icon-32.png", "images/app-icon-48.png",
      "images/app-icon-72.png", "images/app-icon-96.png", "images/app-icon-144.png",
      "images/app-icon-192.png", "images/app-icon-256.png", "images/app-icon-384.png",
      "images/app-icon-512.png", "images/apple-touch-icon.png",
      "images/apple-touch-icon-precomposed.png", "images/ms-tile-image.png" }

ExpectedImagesDir ==
    ExpectedPngs \cup {"images/favicon.ico", "images/safari-pinned-tab.svg"}

\* C5: a complete successful run from empty icons/ and images/ directories
\* leaves exactly 29 files: logo.svg and 13 UI icons in icons/, 13 PNGs,
\* favicon.ico and safari-pinned-tab.svg in images/, and nothing else; the base
\* SVG and the favicon intermediates exist only in the temporary directory.
C5_TwentyNineFiles ==
    (ManifestUpdated /\ raisedBy = "") =>
        /\ DOMAIN files = ExpectedIconsDir \cup ExpectedImagesDir
        /\ Cardinality(DOMAIN files) = 29
        /\ Cardinality(ExpectedIconsDir) = 14
        /\ Cardinality(ExpectedPngs) = 13
        /\ \A p \in ExpectedIconsDir \cup {"images/safari-pinned-tab.svg"} :
              files[p].type = "svg"
        /\ \A p \in ExpectedPngs : files[p].type = "png"
        /\ files["images/favicon.ico"].type = "ico"
        /\ pc = "complete" =>
              DOMAIN tempFiles =
                  {"app-icon-base.svg", "favicon-16.png", "favicon-32.png",
                   "favicon-48.png"}

\* the process has exited with status 0 after all four stages
C5_Witness == pc = "exit" /\ exitStatus = 0 /\ ManifestUpdated

\* C6: the exit status is 0 exactly when all four stages completed without
\* raising; when the construction of the generator or a stage raised, main
\* reported the error and the status is not 0.
C6_ExitStatus ==
    pc = "exit" =>
        /\ (exitStatus = 0) <=> (stagesDone = StageNames /\ raisedBy = "")
        /\ raisedBy # "" => (reported /\ exitStatus # 0)
        /\ raisedBy = "" => ~reported

\* the app-icon stage raised and the process exited with status 1
C6_Witness ==
    /\ pc = "exit"
    /\ raisedBy = "app"
    /\ stagesDone = <<"logo", "ui">>
    /\ exitStatus = 1

TornDown == pc \in {"torn_down", "exit"}

\* C7 (as claimed): once the generator has been torn down, the temporary
\* directory created at construction no longer exists, on every path.
C7_AlwaysRemoved == (TornDown /\ tempDir # "none") => tempDir = "removed"

\* C7 (amended): on every path, after success and after any stage failure,
\* tearing the generator down attempts to remove the temporary directory; the
\* directory is gone when that removal succeeds, and remains only when the
\* removal itself failed, which is swallowed.
C7_RemovalAttempted ==
    (TornDown /\ tempDir # "none") =>
        /\ rmtree \in {"ok", "failed"}
        /\ rmtree = "ok" => (tempDir = "removed" /\ tempFiles = NoFiles)
        /\ rmtree = "failed" => tempDir = "exists"

\* the app-icon stage failed midway and the directory was removed all the same
C7_Witness ==
    /\ pc = "exit"
    /\ raisedBy = "app"
    /\ exitStatus = 1
    /\ tempDir = "removed"
    /\ rmtree = "ok"

-----------------------------------------------------------------------------
(* Properties of the drawings *)

RegisteredIds(d) == {d.defs[k].id : k \in 1..Len(d.defs)}

\* C8: in every vector file written (logo, the 13 UI icons, the base app icon,
\* the monochrome silhouette) each url(#id) used by a fill, stroke or filter
\* attribute names a gradient or filter defined in the same file, and that
\* definition was registered before the referencing element was created.
C8_SelfContained ==
    /\ \A i \in 1..Len(dwg.created) : ElemRefs(dwg.created[i]) \subseteq RegisteredIds(dwg)
    /\ \A n \in DOMAIN saved : UrlRefs(saved[n]) \subseteq DefIds(saved[n])

\* all sixteen files are written, and the logo and the base icon do use
\* references
C8_Witness ==
    /\ Cardinality(DOMAIN saved) = Len(Drawings) + 1
    /\ SafariName \in DOMAIN saved
    /\ UrlRefs(saved["logo"]) = {"logoGradient", "logoGlow"}
    /\ UrlRefs(saved[BaseSvgName]) = {"iconGradient", "iconGlow"}

-----------------------------------------------------------------------------
(* Properties of the monochrome rewrite *)

\* C9 (as claimed): for every input text, the rewrite applied to its own
\* output yields that output unchanged.
C9_Idempotent == mpc = "twice" => monoOut2 = monoOut

Kinds(s) == {s[i].k : i \in 1..Len(s)}
Values(s) == {s[i].v : i \in 1..Len(s)}

HasBlock(s, o, c) == \E i, j \in 1..Len(s) : i < j /\ s[i].k = o /\ s[j].k = c

\* C10 (as claimed): the output holds no fill or stroke that references a
\* gradient, no filter attribute, no linearGradient or filter definition block
\* and no occurrence of the dark brand colour; text that none of these rules
\* covers is left as it was.
C10_OutputFlat ==
    mpc \in {"once", "twice"} =>
        /\ Kinds(monoOut) \cap {"fillUrl", "strokeUrl", "filterAttr"} = {}
        /\ ~HasBlock(monoOut, "lgOpen", "lgClose")
        /\ "lgSelf" \notin Kinds(monoOut)
        /\ ~HasBlock(monoOut, "fOpen", "fClose")
        /\ DARK \notin Values(monoOut)
        /\ ( /\ Kinds(monoIn) \cap {"fillUrl", "strokeUrl", "filterAttr",
                                    "lgOpen", "lgSelf", "fOpen"} = {}
             /\ DARK \notin Values(monoIn) ) => monoOut = monoIn

-----------------------------------------------------------------------------
(* Properties of the colour and geometry helpers *)

\* the three channel values 0..255 a colour text denotes
Channels(cs) ==
    LET h == LStripHash(cs)
    IN [k \in 1..3 |-> 16 * HexVal(h[2 * k - 1]) + HexVal(h[2 * k])]

StartChannels == Channels(Chars(GRADIENT_START))
EndChannels == Channels(Chars(GRADIENT_END))

GradientReturned == cpc = "returned" /\ call.fn = "get_gradient_stops"

\* C11: for every count N >= 2, get_gradient_stops(N) returns exactly N
\* colours; each channel of the first is within 1 of the same channel of
\* GRADIENT_START and each channel of the last within 1 of GRADIENT_END.
C11_Endpoints ==
    (GradientReturned /\ call.args[1] >= 2) =>
        /\ Len(cout) = call.args[1]
        /\ \A k \in 1..3 :
              /\ Abs(Channels(cout[1])[k] - StartChannels[k]) <= 1
              /\ Abs(Channels(cout[Len(cout)])[k] - EndChannels[k]) <= 1

C11_Witness == GradientReturned /\ call.args[1] = MaxCount

\* C12: get_gradient_stops(1) does not divide by count - 1 (it never raises
\* ZeroDivisionError) and returns one colour whose channels are those of
\* the start colour.
C12_SingleStop ==
    (call.fn = "get_gradient_stops" /\ call.args[1] = 1) =>
        /\ cpc # "raised"
        /\ cpc = "returned" =>
              /\ Len(cout) = 1
              /\ Channels(cout[1]) = StartChannels

C12_Witness == GradientReturned /\ call.args[1] = 1 /\ Len(cout) = 1

\* C13: for every count N >= 1 and every stop i, each channel of stop i is
\* start + (end - start) * i / (N - 1) rounded to the nearest integer: the
\* channel differs from the interpolated value by at most one half.
C13_RoundedToNearest ==
    GradientReturned =>
        \A j \in 1..Len(cout) : \A k \in 1..3 :
            LET den == IF call.args[1] > 1 THEN call.args[1] - 1 ELSE 1
                num == StartChannels[k] * den
                       + (EndChannels[k] - StartChannels[k]) * (j - 1)
            IN 2 * Abs(Channels(cout[j])[k] * den - num) <= den

WaveCalled == call.fn = "create_wave_path"

\* C14: for every width >= 0 and every height, amplitude, frequency and
\* phase, create_wave_path returns width + 1 points whose x coordinates are
\* 0, 1, ..., width in this order.
C14_WavePoints ==
    (WaveCalled /\ cpc \in {"returned", "raised"}) =>
        /\ cpc = "returned"
        /\ Len(cout) = call.args[1] + 1
        /\ \A j \in 1..Len(cout) : cout[j].x = j - 1

GearBuilt == cpc = "returned" /\ call.fn = "gear_path"

\* C15: the gear polygon has 2 x teeth vertices; consecutive vertices are
\* pi / teeth apart all the way round, and the vertices at even positions
\* (counted from 0) lie at the outer radius, those at odd positions at the
\* inner radius.
C15_GearAlternates ==
    GearBuilt =>
        /\ Len(cout) = 2 * Teeth
        /\ cout[1].angle = Rat(0, 1)
        /\ \A j \in 1..(Len(cout) - 1) :
              RSub(cout[j + 1].angle, cout[j].angle) = Rat(1, Teeth)
        /\ RAdd(cout[Len(cout)].angle, Rat(1, Teeth)) = Rat(2, 1)
        /\ \A j \in 1..Len(cout) :
              /\ cout[j].center = GearCenter
              /\ cout[j].radius =
                    IF (j - 1) % 2 = 0 THEN OuterRadius ELSE InnerRadius
        /\ OuterRadius > InnerRadius

C15_Witness == GearBuilt /\ Len(cout) = 2 * Teeth

-----------------------------------------------------------------------------
(* Properties of the app-icon stage *)

\* generate_app_icons ran to completion
AppIconsDone == \E i \in 1..Len(stagesDone) : stagesDone[i] = "app"

PngSizes == {files[p].size : p \in ExpectedPngs}

SameSizePairs ==
    { {"images/apple-touch-icon.png", "images/apple-touch-icon-precomposed.png"},
      {"images/app-icon-144.png", "images/ms-tile-image.png"} }

\* C16 as stated: the thirteen PNG files of the app-icon stage have thirteen
\* pairwise distinct pixel sizes.
C16_ThirteenDistinct ==
    AppIconsDone =>
        /\ Cardinality(PngSizes) = 13
        /\ \A p, q \in ExpectedPngs : p # q => files[p].size # files[q].size

\* C16 as amended: the app-icon stage writes thirteen square PNG files at
\* eleven distinct pixel sizes; the two apple-touch icons share 180 px,
\* app-icon-144.png and ms-tile-image.png share 144 px, and every other two
\* of the thirteen files differ in size.
C16_ElevenResolutions ==
    AppIconsDone =>
        /\ \A p \in ExpectedPngs : p \in DOMAIN files /\ files[p].type = "png"
        /\ Cardinality(ExpectedPngs) = 13
        /\ Cardinality(PngSizes) = 11
        /\ \A p, q \in ExpectedPngs :
              (p # q /\ files[p].size = files[q].size) => {p, q} \in SameSizePairs
        /\ \A pair \in SameSizePairs :
              \A p, q \in pair : files[p].size = files[q].size
        /\ files["images/apple-touch-icon.png"].size = 180
        /\ files["images/ms-tile-image.png"].size = 144

C16_Witness ==
    /\ AppIconsDone
    /\ files["images/apple-touch-icon-precomposed.png"].size = 180
    /\ files["images/app-icon-144.png"].size = 144

FaviconWritten == "images/favicon.ico" \in DOMAIN files

\* C17: favicon.ico embeds the three rasterized images of 16, 32 and 48 px
\* in this order, the 16 px image first, and the sizes list given to the
\* writer has one entry per embedded image, equal to its dimensions.
C17_FaviconEmbedsAll ==
    FaviconWritten =>
        LET ico == files["images/favicon.ico"]
        IN /\ Len(ico.frames) = Len(FaviconSizes)
           /\ \A k \in 1..Len(ico.frames) :
                 /\ k <= Len(FaviconSizes)
                 /\ ico.frames[k].size = <<FaviconSizes[k], FaviconSizes[k]>>
                 /\ ico.frames[k].from = k
                 /\ ~ico.frames[k].scaled
           /\ Len(ico.sizes) = Len(ico.frames)
           /\ \A k \in 1..Len(ico.frames) :
                 k <= Len(ico.sizes) /\ ico.sizes[k] = ico.frames[k].size

\* the file under assets/ that a src of the manifest (relative to the project
\* root) names, "" when it names none of the thirteen PNG files
UnderAssets(src) ==
    CASE src = "assets/images/app-icon-16.png" -> "images/app-icon-16.png"
      [] src = "assets/images/app-icon-32.png" -> "images/app-icon-32.png"
      [] src = "assets/images/app-icon-48.png" -> "images/app-icon-48.png"
      [] src = "assets/images/app-icon-72.png" -> "images/app-icon-72.png"
      [] src = "assets/images/app-icon-96.png" -> "images/app-icon-96.png"
      [] src = "assets/images/app-icon-144.png" -> "images/app-icon-144.png"
      [] src = "assets/images/app-icon-192.png" -> "images/app-icon-192.png"
      [] src = "assets/images/app-icon-256.png" -> "images/app-icon-256.png"
      [] src = "assets/images/app-icon-384.png" -> "images/app-icon-384.png"
      [] src = "assets/images/app-icon-512.png" -> "images/app-icon-512.png"
      [] src = "assets/images/apple-touch-icon.png" -> "images/apple-touch-icon.png"
      [] src = "assets/images/apple-touch-icon-precomposed.png" ->
             "images/apple-touch-icon-precomposed.png"
      [] src = "assets/images/ms-tile-image.png" -> "images/ms-tile-image.png"
      [] OTHER -> ""

\* C18: every entry of the icons list written to the manifest names a PNG
\* file that the app-icon stage wrote under assets/images, and its WxH label
\* is the pixel size at which that file was rasterized.
C18_IconsMatchFiles ==
    ManifestUpdated =>
        /\ Len(NewDoc.m["icons"].items) = 8
        /\ \A i \in 1..Len(NewDoc.m["icons"].items) :
              LET e == NewDoc.m["icons"].items[i]
                  f == UnderAssets(e.src)
              IN /\ f \in ExpectedPngs
                 /\ f \in DOMAIN files
                 /\ files[f].type = "png"
                 /\ e.sizes = <<files[f].size, files[f].size>>

C18_Witness ==
    /\ ManifestUpdated
    /\ pc = "exit"
    /\ NewDoc.m["icons"].items[4].src = "assets/images/app-icon-144.png"
    /\ files["images/app-icon-144.png"].size = 144

-----------------------------------------------------------------------------
(* Properties of main *)

IsPrefix(s, t) == Len(s) <= Len(t) /\ \A i \in 1..Len(s) : s[i] = t[i]

AssetFailures == {"construct", "logo", "ui", "app"}

\* the position of main just before each stage, and the stages done by then
StageEntry ==
    [logo |-> <<>>, ui |-> <<"logo">>, app |-> <<"logo", "ui">>,
     manifest |-> <<"logo", "ui", "app">>]

\* C19: the stages complete in the order logo, UI icons, app icons,
\* manifest, one at a time, a stage starting only when all earlier ones
\* have completed; once a step has failed no stage starts or completes any
\* more, no file under assets/ is written or removed, and after a failure
\* before the manifest stage the manifest is still what it was at start.
C19_StagesInOrder ==
    [][ /\ IsPrefix(stagesDone', StageNames)
        /\ Len(stagesDone') \in {Len(stagesDone), Len(stagesDone) + 1}
        /\ stagesDone' # stagesDone => (raisedBy = "" /\ raisedBy' = "")
        /\ pc' \in DOMAIN StageEntry =>
              (stagesDone' = StageEntry[pc'] /\ raisedBy' = "")
        /\ raisedBy # "" =>
              /\ raisedBy' = raisedBy
              /\ stagesDone' = stagesDone
              /\ files' = files
              /\ manifestFile' = manifestFile
        /\ raisedBy' \in AssetFailures => manifestFile' = manifestAtStart
        /\ \A p \in DOMAIN files : p \in DOMAIN files'
      ]_vars

\* the app-icon stage failed after the logo and UI icon stages had written
\* their files, and the process has exited
C19_Witness ==
    /\ pc = "exit"
    /\ raisedBy = "app"
    /\ stagesDone = <<"logo", "ui">>
    /\ "icons/logo.svg" \in DOMAIN files
    /\ "images/app-icon-16.png" \in DOMAIN files
    /\ manifestFile = manifestAtStart

-----------------------------------------------------------------------------
(* Element order of the app icon *)

IsElemTok(t) == t.k = "elem"

\* the tags of the elements written after the defs section, in file order
BodyTags(text) ==
    LET e == CHOOSE k \in 1..Len(text) : text[k] = Tok("end", "defs")
        els == SelectSeq(SubSeq(text, e + 1, Len(text)), IsElemTok)
    IN [k \in 1..Len(els) |-> els[k].v]

\* C20: in the app-icon drawing written by _create_app_icon_svg the
\* background rect is the first element after the defs section; the eight
\* ray lines, the wave path and the bulb circle all come after it.
C20_BackgroundFirst ==
    BaseSvgName \in DOMAIN saved =>
        LET tags == BodyTags(saved[BaseSvgName])
        IN /\ Len(tags) = RayCount + 3
           /\ tags[1] = "rect"
           /\ \A k \in 2..Len(tags) : tags[k] \in {"line", "path", "circle"}

====
